---- MODULE Spec2Model ----
(***************************************************************************)
(* Model of sqsub.py: the command-line entry point submits a job through   *)
(* sqsub, builds a Job from the scheduler's answers and hands it to the    *)
(* JobTracker daemon, whose run() polls job state, log file and nodes.     *)
(*                                                                         *)
(* Python strings are sequences of one-character strings, so that `in`,    *)
(* str.replace, str.isdigit and list.index are computed, not assumed.      *)
(* The output of an external command is the record [rc, out]: its exit     *)
(* status and its output already split on whitespace.                      *)
(***************************************************************************)
EXTENDS Integers, Sequences, FiniteSets, TLC

VARIABLES
    pc,          \* position of the program: main, exited, waiting, started, active, done, crashed
    mainExit,    \* exit of the command-line process: "running", "zero", "nonzero"
    haveJob,     \* FALSE while myjob is None / not yet built
    job,         \* the Job object: [id, log, state, nodes]
    frozen_note, \* local flag of run()
    sent,        \* subjects passed to JobTracker.email, in order
    cause,       \* which break left the active loop: "still-running", "JobEnded", "NodeFailure"
    pidfiles,    \* pid artifacts present in DAEMON_PID_PATH (keys are job ids)
    schedState,  \* scheduler: current state of the job
    schedFile,   \* scheduler: the job's file: attribute
    files,       \* filesystem: paths that are regular files
    lastOps,     \* external calls made by the latest program step, in order
    lastState,   \* what the latest step's refresh_job_state returned (<<>> if none)
    pinged,      \* nodes probed by the latest step, in order
    pingOk,      \* outcome of each of those probes
    offline,     \* result of the latest get_offline_nodes call
    elapsed,     \* time_since_log_modified() as read by the latest frozen check (-1 if none)
    thawed,      \* history: a frozen check after the notification read an age within TIME_DEAD
    submitRc,    \* history: exit status of the sqsub command (-1 before it ran)
    polls,       \* number of time.sleep(POLL_INTERVAL_SEC) calls so far, modulo PollWindow
    asked        \* history: what the outside held for the latest pass of the active loop:
                 \* qfail, sqjobs fails or prints no value for state:; down, some ping fails;
                 \* stale, the log's age is above TIME_DEAD

vars == <<pc, mainExit, haveJob, job, frozen_note, sent, cause, pidfiles, schedState,
          schedFile, files, lastOps, lastState, pinged, pingOk, offline, elapsed, thawed, submitRc, polls,
          asked>>

-----------------------------------------------------------------------------
(* Bounds of the model *)

MaxNodes == 2          \* longest node list sqhosts returns
PollWindow == 2        \* sleeps are counted modulo this

-----------------------------------------------------------------------------
(* Program constants *)

TIME_DEAD == 60 * 90
POLL_INTERVAL_SEC == 15

PBS_JOBID == <<"$", "{", "P", "B", "S", "_", "J", "O", "B", "I", "D", "}">>
STATE_ATT == <<"s", "t", "a", "t", "e", ":">>
FILE_ATT == <<"f", "i", "l", "e", ":">>
QUEUED == <<"Q">>
RUNNING == <<"R">>
DEAD == <<"D">>

JOB_ENDED == "JOB ENDED"
NODE_FAILURE == "NODE FAILURE"
FROZEN_JOB == "FROZEN JOB?"

-----------------------------------------------------------------------------
(* Python string and list primitives *)

Digits == {"0", "1", "2", "3", "4", "5", "6", "7", "8", "9"}

\* str.isdigit(): non-empty and every character a digit
isdigit(s) == Len(s) > 0 /\ \A i \in 1..Len(s) : s[i] \in Digits

startswith(s, p) == Len(p) <= Len(s) /\ SubSeq(s, 1, Len(p)) = p

\* sub in s
contains(s, sub) == \E i \in 1..(Len(s) - Len(sub) + 1) : SubSeq(s, i, i + Len(sub) - 1) = sub

\* s.replace(old, new): every non-overlapping occurrence, left to right (old non-empty)
RECURSIVE str_replace(_, _, _)
str_replace(s, old, new) ==
    IF s = <<>> THEN <<>>
    ELSE IF startswith(s, old)
         THEN new \o str_replace(SubSeq(s, Len(old) + 1, Len(s)), old, new)
         ELSE <<Head(s)>> \o str_replace(Tail(s), old, new)

\* lst.index(x): position of the first occurrence, 0 if absent (ValueError)
list_index(lst, x) ==
    IF \E i \in 1..Len(lst) : lst[i] = x
    THEN CHOOSE i \in 1..Len(lst) : lst[i] = x /\ \A k \in 1..(i - 1) : lst[k] # x
    ELSE 0

-----------------------------------------------------------------------------
(* get_offline_nodes: ok[i] is the outcome of the ping of nodes_list[i] *)

RECURSIVE ping_from(_, _, _)
ping_from(nodes_list, ok, i) ==
    IF i > Len(nodes_list) THEN [offline |-> <<>>, probed |-> <<>>]
    ELSE LET rest == ping_from(nodes_list, ok, i + 1)
         IN  [offline |-> IF ok[i] THEN rest.offline ELSE <<nodes_list[i]>> \o rest.offline,
              probed  |-> <<nodes_list[i]>> \o rest.probed]

RECURSIVE ping_until_failure(_, _, _)
ping_until_failure(nodes_list, ok, i) ==
    IF i > Len(nodes_list) THEN [offline |-> <<>>, probed |-> <<>>]
    ELSE IF ~ok[i] THEN [offline |-> <<nodes_list[i]>>, probed |-> <<nodes_list[i]>>]
    ELSE LET rest == ping_until_failure(nodes_list, ok, i + 1)
         IN  [offline |-> rest.offline, probed |-> <<nodes_list[i]>> \o rest.probed]

get_offline_nodes_shortcircuit(nodes_list, ok) == ping_until_failure(nodes_list, ok, 1)

get_offline_nodes(nodes_list, ok) == ping_from(nodes_list, ok, 1)

-----------------------------------------------------------------------------
(* Job *)

NoJob == [id |-> <<>>, log |-> <<>>, state |-> <<>>, nodes |-> <<>>]

\* Job.query on the answer of `sqjobs -l id`: the token after the first att.
\* Raises on a failed command, an absent attribute, or att as the last token.
query(sqjobs, att) ==
    LET stat == sqjobs.out
        i == list_index(stat, att)
    IN  IF sqjobs.rc # 0 \/ i = 0 \/ i + 1 > Len(stat)
        THEN [ok |-> FALSE, val |-> <<>>]
        ELSE [ok |-> TRUE, val |-> stat[i + 1]]

\* the value refresh_log_path stores, from the file: attribute and qstat's third token
resolved_first_only(logfile, qstat) ==
    IF contains(logfile, PBS_JOBID)
    THEN LET i == CHOOSE k \in 1..Len(logfile) :
                     /\ startswith(SubSeq(logfile, k, Len(logfile)), PBS_JOBID)
                     /\ \A m \in 1..(k - 1) : ~startswith(SubSeq(logfile, m, Len(logfile)), PBS_JOBID)
         IN  SubSeq(logfile, 1, i - 1) \o qstat.out[3]
                 \o SubSeq(logfile, i + Len(PBS_JOBID), Len(logfile))
    ELSE logfile

resolved(logfile, qstat) ==
    IF contains(logfile, PBS_JOBID)
    THEN str_replace(logfile, PBS_JOBID, qstat.out[3])
    ELSE logfile

\* Job.refresh_log_path: [ok, job, ops]; ok = FALSE when a call raised
refresh_log_path(j, sqjobs, qstat) ==
    LET q == query(sqjobs, FILE_ATT)
    IN  IF ~q.ok THEN [ok |-> FALSE, job |-> j, ops |-> <<"sqjobs">>]
        ELSE IF contains(q.val, PBS_JOBID)
        THEN IF qstat.rc # 0 \/ Len(qstat.out) < 3
             THEN [ok |-> FALSE, job |-> j, ops |-> <<"sqjobs", "qstat">>]
             ELSE [ok |-> TRUE, job |-> [j EXCEPT !.log = resolved(q.val, qstat)],
                   ops |-> <<"sqjobs", "qstat">>]
        ELSE [ok |-> TRUE, job |-> [j EXCEPT !.log = q.val], ops |-> <<"sqjobs">>]

\* Job.refresh_job_state
refresh_job_state_resetting_nodes(j, sqjobs) ==
    LET q == query(sqjobs, STATE_ATT)
    IN  IF ~q.ok THEN [ok |-> FALSE, job |-> j, ops |-> <<"sqjobs">>]
        ELSE [ok |-> TRUE, job |-> [j EXCEPT !.state = q.val, !.nodes = <<>>],
              ops |-> <<"sqjobs">>]

refresh_job_state_swallowing(j, sqjobs) ==
    LET q == query(sqjobs, STATE_ATT)
    IN  IF ~q.ok THEN [ok |-> TRUE, job |-> j, ops |-> <<"sqjobs">>]
        ELSE [ok |-> TRUE, job |-> [j EXCEPT !.state = q.val], ops |-> <<"sqjobs">>]

refresh_job_state(j, sqjobs) ==
    LET q == query(sqjobs, STATE_ATT)
    IN  IF ~q.ok THEN [ok |-> FALSE, job |-> j, ops |-> <<"sqjobs">>]
        ELSE [ok |-> TRUE, job |-> [j EXCEPT !.state = q.val], ops |-> <<"sqjobs">>]

\* Job.refresh_nodes: the pipeline ends in awk, so it does not raise
refresh_nodes(j, sqhosts) == [ok |-> TRUE, job |-> [j EXCEPT !.nodes = sqhosts], ops |-> <<"sqhosts">>]

\* Job.__init__
Job_init(jobid, sqjobs1, qstat, sqjobs2, sqhosts) ==
    LET j0 == [NoJob EXCEPT !.id = jobid]
        r1 == refresh_log_path(j0, sqjobs1, qstat)
        r2 == refresh_job_state(r1.job, sqjobs2)
        r3 == refresh_nodes(r2.job, sqhosts)
    IN  IF ~r1.ok THEN [ok |-> FALSE, job |-> NoJob, ops |-> r1.ops]
        ELSE IF ~r2.ok THEN [ok |-> FALSE, job |-> NoJob, ops |-> r1.ops \o r2.ops]
        ELSE [ok |-> TRUE, job |-> r3.job, ops |-> r1.ops \o r2.ops \o r3.ops]

\* submit_job: status "None" (returned None), "Job" (returned a Job) or "raise"
\* (an uncaught exception: IndexError on empty output, or one from Job.__init__)
submit_job_ignoring_status(sqsub, sqjobs1, qstat, sqjobs2, sqhosts) ==
    IF Len(sqsub.out) = 0 THEN [status |-> "raise", job |-> NoJob, ops |-> <<"sqsub">>]
    ELSE LET r == Job_init(sqsub.out[Len(sqsub.out)], sqjobs1, qstat, sqjobs2, sqhosts)
         IN  [status |-> IF r.ok THEN "Job" ELSE "raise", job |-> r.job,
              ops |-> <<"sqsub">> \o r.ops]

submit_job(sqsub, sqjobs1, qstat, sqjobs2, sqhosts) ==
    IF sqsub.rc # 0 THEN [status |-> "None", job |-> NoJob, ops |-> <<"sqsub">>]
    ELSE IF Len(sqsub.out) = 0 THEN [status |-> "raise", job |-> NoJob, ops |-> <<"sqsub">>]
    ELSE LET r == Job_init(sqsub.out[Len(sqsub.out)], sqjobs1, qstat, sqjobs2, sqhosts)
         IN  [status |-> IF r.ok THEN "Job" ELSE "raise", job |-> r.job,
              ops |-> <<"sqsub">> \o r.ops]

-----------------------------------------------------------------------------
(* Daemon (daemon.py): the background-execution facility behind JobTracker *)

\* Daemon.start: writes the pid artifact keyed by the job id and runs run()
Daemon_start(pf, key) == pf \cup {key}

\* Daemon.stop, called by the daemon on itself: neither the sources nor the
\* specification say what it does, so every outcome is possible: it returns to
\* run() or ends the process there, and it leaves or removes the pid artifact.
Daemon_stop(pf, key) == [returns : BOOLEAN, pf : {pf, pf \ {key}}]

\* Daemon.delpid: removes the pid artifact
Daemon_delpid(pf, key) == pf \ {key}

\* the end of run(): self.stop(), then self.delpid() if stop() returned;
\* the possible [pf, ops]: the artifacts left and the calls made
run_exit(pf, key) ==
    {IF s.returns
     THEN [pf |-> Daemon_delpid(s.pf, key), ops |-> <<"stop", "delpid">>]
     ELSE [pf |-> s.pf, ops |-> <<"stop">>] : s \in Daemon_stop(pf, key)}

-----------------------------------------------------------------------------
(* Environment: what the external commands can answer *)

Nodes == {"tem100", "tem101"}

NodeLists == UNION {[1..n -> Nodes] : n \in 0..MaxNodes}

JobIds == {<<"4", "2">>, <<"7">>, <<"1", "x">>}

ERROR_WORD == <<"e", "r", "r">>

JOBID_WORD == <<"j", "o", "b", "i", "d">>

SqsubAnswers ==
    {[rc |-> 1, out |-> <<>>], [rc |-> 1, out |-> <<ERROR_WORD, <<"7">>>>],
     [rc |-> 0, out |-> <<>>]}
        \cup {[rc |-> 0, out |-> <<JOBID_WORD, id>>] : id \in JobIds}

\* file: attributes; the last one holds only a prefix of the placeholder
LogFiles ==
    { <<"/", "l">>,
      <<"/">> \o PBS_JOBID,
      PBS_JOBID \o <<"$">> \o PBS_JOBID,
      <<"$", "{", "P">> }

States == {QUEUED, RUNNING, DEAD}

\* the id `qstat -f` reports for a job
QstatId(id) == id \o <<".", "o">>

SqjobsAnswers(st, f, faulty) ==
    {[rc |-> 0, out |-> <<STATE_ATT, st, FILE_ATT, f>>]}
        \cup IF faulty
             THEN {[rc |-> 1, out |-> <<>>],
                   [rc |-> 0, out |-> <<STATE_ATT, st>>],
                   [rc |-> 0, out |-> <<FILE_ATT, f, STATE_ATT>>]}
             ELSE {}

QstatAnswers(id, faulty) ==
    {[rc |-> 0, out |-> <<<<"J", "o", "b">>, <<"I", "d", ":">>, QstatId(id)>>]}
        \cup IF faulty
             THEN {[rc |-> 1, out |-> <<>>], [rc |-> 0, out |-> <<<<"J", "o", "b">>>>]}
             ELSE {}

\* values time.time() - os.path.getmtime(log) can take at a read
Ages == {0, TIME_DEAD - POLL_INTERVAL_SEC, TIME_DEAD, TIME_DEAD + 1, TIME_DEAD + POLL_INTERVAL_SEC}

\* os.path.isfile
isfile(path) == path \in files

-----------------------------------------------------------------------------
NoAsk == [qfail |-> FALSE, down |-> FALSE, stale |-> FALSE]

Init ==
    /\ pc = "main"
    /\ mainExit = "running"
    /\ haveJob = FALSE
    /\ job = NoJob
    /\ frozen_note = FALSE
    /\ sent = <<>>
    /\ cause = "still-running"
    /\ pidfiles = {}
    /\ schedState = <<>>
    /\ schedFile = <<>>
    /\ files = {}
    /\ lastOps = <<>>
    /\ lastState = <<>>
    /\ pinged = <<>>
    /\ pingOk = <<>>
    /\ offline = <<>>
    /\ elapsed = -1
    /\ thawed = FALSE
    /\ submitRc = -1
    /\ polls = 0
    /\ asked = NoAsk

\* time.sleep(POLL_INTERVAL_SEC)
sleep(n) == (n + 1) % PollWindow

NoProbe == /\ pinged' = <<>>
           /\ pingOk' = <<>>
           /\ offline' = <<>>

NotAsked == asked' = NoAsk

\* __main__: submit_job, the assert, JobTracker(...).start()
Main(faulty) ==
    /\ pc = "main"
    /\ \E sqsub \in SqsubAnswers, f \in LogFiles, st \in States, hosts \in NodeLists :
         LET id == IF Len(sqsub.out) > 0 THEN sqsub.out[Len(sqsub.out)] ELSE <<>>
         IN  \E a1 \in SqjobsAnswers(st, f, faulty), q \in QstatAnswers(id, faulty),
                a2 \in SqjobsAnswers(st, f, faulty) :
               LET r == submit_job(sqsub, a1, q, a2, hosts)
               IN  /\ IF sqsub.rc = 0
                      THEN schedState' = st /\ schedFile' = f
                      ELSE UNCHANGED <<schedState, schedFile>>
                   /\ lastOps' = r.ops
                   /\ submitRc' = sqsub.rc
                   /\ IF r.status = "Job"
                      THEN /\ job' = r.job
                           /\ haveJob' = TRUE
                           /\ pidfiles' = Daemon_start(pidfiles, r.job.id)
                           /\ mainExit' = "zero"
                           /\ pc' = "waiting"
                      ELSE /\ UNCHANGED <<job, haveJob, pidfiles>>
                           /\ mainExit' = "nonzero"
                           /\ pc' = "exited"
    /\ NoProbe
    /\ NotAsked
    /\ UNCHANGED <<frozen_note, sent, cause, files, lastState, elapsed, thawed, polls>>

\* JobTracker.email: the subjects sent so far
email(log, message) == Append(log, message)

\* the test of the waiting loop (line 134); TRUE keeps the loop going
waiting_test_both(state, log_is_file) == ~(state = RUNNING) /\ ~log_is_file

waiting_test(state, log_is_file) == ~(state = RUNNING) \/ ~log_is_file

\* the external calls of that test: `or` short-circuits, so os.path.isfile is
\* called only when the stored state is R
waiting_test_ops(state) == IF state = RUNNING THEN <<"isfile">> ELSE <<>>

\* The body of the waiting loop (lines 135-139) on the answers of its queries:
\* [status, job, sent, state, ops]; status is the program position it leaves.
\* The first call of the body is the os.path.isfile of the message of line 136.
waiting_pass_ending_on_dead(j, mail, sqjobs1, sqjobs2, qstat) ==
    LET r1 == refresh_job_state(j, sqjobs1)
        r2 == refresh_log_path(r1.job, sqjobs2, qstat)
    IN  IF ~r1.ok
        THEN [status |-> "crashed", job |-> j, sent |-> mail, state |-> <<>>,
              ops |-> <<"isfile">> \o r1.ops]
        ELSE IF r1.job.state = DEAD
        THEN [status |-> "done", job |-> r1.job, sent |-> email(mail, JOB_ENDED),
              state |-> r1.job.state,
              ops |-> <<"isfile">> \o r1.ops \o <<"email", "stop", "delpid">>]
        ELSE IF ~r2.ok
        THEN [status |-> "crashed", job |-> r1.job, sent |-> mail, state |-> r1.job.state,
              ops |-> <<"isfile">> \o r1.ops \o r2.ops]
        ELSE [status |-> "waiting", job |-> r2.job, sent |-> mail, state |-> r1.job.state,
              ops |-> <<"isfile">> \o r1.ops \o r2.ops \o <<"sleep">>]

waiting_pass(j, mail, sqjobs1, sqjobs2, qstat) ==
    LET r1 == refresh_job_state(j, sqjobs1)
        r2 == refresh_log_path(r1.job, sqjobs2, qstat)
    IN  IF ~r1.ok
        THEN [status |-> "crashed", job |-> j, sent |-> mail, state |-> <<>>,
              ops |-> <<"isfile">> \o r1.ops]
        ELSE IF ~r2.ok
        THEN [status |-> "crashed", job |-> r1.job, sent |-> mail, state |-> r1.job.state,
              ops |-> <<"isfile">> \o r1.ops \o r2.ops]
        ELSE [status |-> "waiting", job |-> r2.job, sent |-> mail, state |-> r1.job.state,
              ops |-> <<"isfile">> \o r1.ops \o r2.ops \o <<"sleep">>]

\* run(), one pass of the waiting loop whose test holds: out, refresh state, refresh log, sleep
WaitingTick(faulty) ==
    /\ pc = "waiting"
    /\ waiting_test(job.state, isfile(job.log))
    /\ \E a1 \in SqjobsAnswers(schedState, schedFile, faulty),
          a2 \in SqjobsAnswers(schedState, schedFile, faulty),
          q \in QstatAnswers(job.id, faulty) :
         LET w == waiting_pass(job, sent, a1, a2, q)
         IN  /\ pc' = w.status
             /\ job' = w.job
             /\ sent' = w.sent
             /\ lastState' = w.state
             /\ lastOps' = waiting_test_ops(job.state) \o w.ops
             /\ polls' = IF w.status = "waiting" THEN sleep(polls) ELSE polls
             /\ pidfiles' = IF w.status = "waiting" THEN pidfiles
                            ELSE Daemon_delpid(pidfiles, job.id)
    /\ NoProbe
    /\ NotAsked
    /\ UNCHANGED <<mainExit, haveJob, frozen_note, cause, schedState, schedFile,
                   files, elapsed, thawed, submitRc>>

\* run(), the waiting loop's test fails (line 134) and the daemon sleeps one
\* more interval (line 142); the outside goes on during that sleep
LeaveWaiting ==
    /\ pc = "waiting"
    /\ ~waiting_test(job.state, isfile(job.log))
    /\ lastOps' = waiting_test_ops(job.state) \o <<"sleep">>
    /\ polls' = sleep(polls)
    /\ pc' = "started"
    /\ lastState' = <<>>
    /\ NoProbe
    /\ NotAsked
    /\ UNCHANGED <<mainExit, haveJob, job, frozen_note, sent, cause, pidfiles, schedState,
                   schedFile, files, elapsed, thawed, submitRc>>

\* run(), after that sleep (lines 143-147): refresh_nodes, out, frozen_note = False
StartActive ==
    /\ pc = "started"
    /\ \E hosts \in NodeLists :
         LET r == refresh_nodes(job, hosts)
         IN  /\ job' = r.job
             /\ lastOps' = r.ops
    /\ frozen_note' = FALSE
    /\ pc' = "active"
    /\ lastState' = <<>>
    /\ NoProbe
    /\ NotAsked
    /\ UNCHANGED <<mainExit, haveJob, sent, cause, pidfiles, schedState, schedFile,
                   files, elapsed, thawed, submitRc, polls>>

\* the frozen test of line 167
frozen_test_ignoring_flag(age, note) == age > TIME_DEAD

frozen_test_at_threshold(age, note) == age >= TIME_DEAD /\ ~note

frozen_test(age, note) == age > TIME_DEAD /\ ~note

\* The decisions of one pass of the active loop (lines 154-174), given the refreshed
\* state, the offline nodes, the log's age, the flag and the mail sent so far:
\* [cause, sent, note, probes, checks]; cause # "still-running" is a break.
active_pass_no_break(state, off, age, note, mail) ==
    LET m1 == IF state = DEAD THEN email(mail, JOB_ENDED) ELSE mail
        m2 == IF Len(off) > 0 THEN email(m1, NODE_FAILURE) ELSE m1
    IN  IF Len(off) > 0
        THEN [cause |-> "NodeFailure", sent |-> m2, note |-> note, probes |-> TRUE, checks |-> FALSE]
        ELSE IF state = DEAD
        THEN [cause |-> "JobEnded", sent |-> m2, note |-> note, probes |-> TRUE, checks |-> FALSE]
        ELSE IF frozen_test(age, note)
        THEN [cause |-> "still-running", sent |-> email(mail, FROZEN_JOB), note |-> TRUE,
              probes |-> TRUE, checks |-> TRUE]
        ELSE [cause |-> "still-running", sent |-> mail, note |-> note,
              probes |-> TRUE, checks |-> TRUE]

active_pass_node_warning(state, off, age, note, mail) ==
    IF state = DEAD
    THEN [cause |-> "JobEnded", sent |-> email(mail, JOB_ENDED), note |-> note,
          probes |-> FALSE, checks |-> FALSE]
    ELSE IF Len(off) > 0
    THEN [cause |-> "still-running", sent |-> email(mail, NODE_FAILURE), note |-> note,
          probes |-> TRUE, checks |-> FALSE]
    ELSE IF frozen_test(age, note)
    THEN [cause |-> "still-running", sent |-> email(mail, FROZEN_JOB), note |-> TRUE,
          probes |-> TRUE, checks |-> TRUE]
    ELSE [cause |-> "still-running", sent |-> mail, note |-> note,
          probes |-> TRUE, checks |-> TRUE]

active_pass_frozen_break(state, off, age, note, mail) ==
    IF state = DEAD
    THEN [cause |-> "JobEnded", sent |-> email(mail, JOB_ENDED), note |-> note,
          probes |-> FALSE, checks |-> FALSE]
    ELSE IF Len(off) > 0
    THEN [cause |-> "NodeFailure", sent |-> email(mail, NODE_FAILURE), note |-> note,
          probes |-> TRUE, checks |-> FALSE]
    ELSE IF frozen_test(age, note)
    THEN [cause |-> "Frozen", sent |-> email(mail, FROZEN_JOB), note |-> TRUE,
          probes |-> TRUE, checks |-> TRUE]
    ELSE [cause |-> "still-running", sent |-> mail, note |-> note,
          probes |-> TRUE, checks |-> TRUE]

active_pass_nodes_first(state, off, age, note, mail) ==
    IF Len(off) > 0
    THEN [cause |-> "NodeFailure", sent |-> email(mail, NODE_FAILURE), note |-> note,
          probes |-> TRUE, checks |-> FALSE]
    ELSE IF state = DEAD
    THEN [cause |-> "JobEnded", sent |-> email(mail, JOB_ENDED), note |-> note,
          probes |-> TRUE, checks |-> FALSE]
    ELSE IF frozen_test(age, note)
    THEN [cause |-> "still-running", sent |-> email(mail, FROZEN_JOB), note |-> TRUE,
          probes |-> TRUE, checks |-> TRUE]
    ELSE [cause |-> "still-running", sent |-> mail, note |-> note,
          probes |-> TRUE, checks |-> TRUE]

active_pass_frozen_then_end(state, off, age, note, mail) ==
    LET m == IF frozen_test(age, note) THEN email(mail, FROZEN_JOB) ELSE mail
        n == note \/ frozen_test(age, note)
    IN  IF state = DEAD
        THEN [cause |-> "JobEnded", sent |-> email(m, JOB_ENDED), note |-> n,
              probes |-> FALSE, checks |-> TRUE]
        ELSE IF Len(off) > 0
        THEN [cause |-> "NodeFailure", sent |-> email(m, NODE_FAILURE), note |-> n,
              probes |-> TRUE, checks |-> TRUE]
        ELSE [cause |-> "still-running", sent |-> m, note |-> n,
              probes |-> TRUE, checks |-> TRUE]

active_pass_node_always(state, off, age, note, mail) ==
    IF state = DEAD
    THEN [cause |-> "JobEnded", sent |-> email(mail, JOB_ENDED), note |-> note,
          probes |-> FALSE, checks |-> FALSE]
    ELSE IF Len(off) >= 0
    THEN [cause |-> "NodeFailure", sent |-> email(mail, NODE_FAILURE), note |-> note,
          probes |-> TRUE, checks |-> FALSE]
    ELSE IF frozen_test(age, note)
    THEN [cause |-> "still-running", sent |-> email(mail, FROZEN_JOB), note |-> TRUE,
          probes |-> TRUE, checks |-> TRUE]
    ELSE [cause |-> "still-running", sent |-> mail, note |-> note,
          probes |-> TRUE, checks |-> TRUE]

active_pass(state, off, age, note, mail) ==
    IF state = DEAD
    THEN [cause |-> "JobEnded", sent |-> email(mail, JOB_ENDED), note |-> note,
          probes |-> FALSE, checks |-> FALSE]
    ELSE IF Len(off) > 0
    THEN [cause |-> "NodeFailure", sent |-> email(mail, NODE_FAILURE), note |-> note,
          probes |-> TRUE, checks |-> FALSE]
    ELSE IF frozen_test(age, note)
    THEN [cause |-> "still-running", sent |-> email(mail, FROZEN_JOB), note |-> TRUE,
          probes |-> TRUE, checks |-> TRUE]
    ELSE [cause |-> "still-running", sent |-> mail, note |-> note,
          probes |-> TRUE, checks |-> TRUE]

\* run(), one pass of the active loop, through break, stop() and delpid() when it ends
ActiveTick(faulty) ==
    /\ pc = "active"
    /\ \E a \in SqjobsAnswers(schedState, schedFile, faulty),
          ok \in [1..Len(job.nodes) -> BOOLEAN], age \in Ages :
         LET r == refresh_job_state(job, a)
             p == get_offline_nodes(job.nodes, ok)
             d == active_pass(r.job.state, p.offline, age, frozen_note, sent)
             pings == IF d.probes THEN [i \in 1..Len(p.probed) |-> "ping"] ELSE <<>>
             mails == [i \in 1..(Len(d.sent) - Len(sent)) |-> "email"]
             held == [qfail |-> (a.rc # 0 \/ ~\E i \in 1..(Len(a.out) - 1) : a.out[i] = STATE_ATT),
                      down |-> \E i \in DOMAIN ok : ~ok[i],
                      stale |-> age > TIME_DEAD]
         IN  IF ~r.ok
             THEN /\ pc' = "crashed"
                  /\ lastOps' = <<"getmtime">> \o r.ops
                  /\ lastState' = <<>>
                  /\ pidfiles' = Daemon_delpid(pidfiles, job.id)
                  /\ NoProbe
                  /\ asked' = held
                  /\ UNCHANGED <<job, sent, cause, frozen_note, elapsed, thawed, polls>>
             ELSE /\ job' = r.job
                  /\ asked' = held
                  /\ lastState' = r.job.state
                  /\ IF d.probes
                     THEN pinged' = p.probed /\ pingOk' = ok /\ offline' = p.offline
                     ELSE NoProbe
                  /\ elapsed' = IF d.checks THEN age ELSE elapsed
                  /\ thawed' = (thawed \/ (d.checks /\ frozen_note /\ age <= TIME_DEAD))
                  /\ sent' = d.sent
                  /\ frozen_note' = d.note
                  /\ cause' = d.cause
                  /\ IF d.cause = "still-running"
                     THEN /\ pc' = "active"
                          /\ lastOps' = <<"getmtime">> \o r.ops \o pings
                                            \o (IF d.checks THEN <<"getmtime">> ELSE <<>>)
                                            \o mails \o <<"sleep">>
                          /\ polls' = sleep(polls)
                          /\ UNCHANGED pidfiles
                     ELSE /\ pc' = "done"
                          /\ \E x \in run_exit(pidfiles, job.id) :
                               /\ lastOps' = <<"getmtime">> \o r.ops \o pings \o mails
                                                 \o x.ops
                               /\ pidfiles' = x.pf
                          /\ UNCHANGED polls
    /\ UNCHANGED <<mainExit, haveJob, schedState, schedFile, files, submitRc>>

\* scheduler: the job starts, ends, or is removed from the queue
EnvJobState ==
    /\ pc \in {"waiting", "started", "active"}
    /\ \/ schedState = QUEUED /\ schedState' \in {RUNNING, DEAD}
       \/ schedState = RUNNING /\ schedState' = DEAD
    /\ UNCHANGED <<pc, mainExit, haveJob, job, frozen_note, sent, cause, pidfiles,
                   schedFile, files, lastOps, lastState, pinged, pingOk, offline, elapsed, thawed, submitRc, polls,
          asked>>

\* the job (or an earlier run with the same -o) writes its log file
EnvLogCreated ==
    /\ pc \in {"waiting", "started", "active"}
    /\ LET path == str_replace(schedFile, PBS_JOBID, QstatId(job.id))
       IN  /\ path \notin files
           /\ files' = files \cup {path}
    /\ UNCHANGED <<pc, mainExit, haveJob, job, frozen_note, sent, cause, pidfiles,
                   schedState, schedFile, lastOps, lastState, pinged, pingOk, offline, elapsed, thawed, submitRc, polls,
          asked>>

Next ==
    \/ Main(TRUE)
    \/ WaitingTick(TRUE)
    \/ LeaveWaiting
    \/ StartActive
    \/ ActiveTick(TRUE)
    \/ EnvJobState
    \/ EnvLogCreated

Spec == Init /\ [][Next]_vars

\* scheduler queries always succeed, and the daemon keeps being scheduled
LiveNext ==
    \/ Main(FALSE)
    \/ WaitingTick(FALSE)
    \/ LeaveWaiting
    \/ StartActive
    \/ ActiveTick(FALSE)
    \/ EnvJobState
    \/ EnvLogCreated

LiveSpec ==
    /\ Init
    /\ [][LiveNext]_vars
    /\ WF_vars(WaitingTick(FALSE))
    /\ WF_vars(LeaveWaiting)
    /\ WF_vars(StartActive)
    /\ WF_vars(ActiveTick(FALSE))

-----------------------------------------------------------------------------
(* Vocabulary of the properties *)

Count(seq, x) == Cardinality({i \in DOMAIN seq : seq[i] = x})

Has(seq, x) == \E i \in DOMAIN seq : seq[i] = x

\* the latest step was a pass of the active loop that got the job state
ActivePassed == Len(lastOps) > 0 /\ lastOps[1] = "getmtime" /\ lastState # <<>>

\* the latest step was a monitor step that refreshed the job state
MonitorRefreshed == pc \in {"waiting", "active", "done", "crashed"} /\ lastState # <<>>

EndMails == Count(sent, JOB_ENDED) + Count(sent, NODE_FAILURE)

\* positions of seq at which sub occurs
Occurrences(seq, sub) ==
    {i \in 1..Len(seq) : startswith(SubSeq(seq, i, Len(seq)), sub)}

\* off lists, in order, exactly the positions of nodes_list whose probe failed
IsFailedSublist(off, nodes_list, ok) ==
    \E f \in [1..Len(off) -> 1..Len(nodes_list)] :
        /\ \A k \in 1..Len(off) : off[k] = nodes_list[f[k]] /\ ~ok[f[k]]
        /\ \A k, m \in 1..Len(off) : k < m => f[k] < f[m]
        /\ \A i \in 1..Len(nodes_list) : ~ok[i] => \E k \in 1..Len(off) : f[k] = i

-----------------------------------------------------------------------------
(* C1: within one run() the "FROZEN JOB?" mail is sent at most once, however *)
(* many passes read a stale log and even if the log advanced in between, and *)
(* the frozen flag, once set, is never cleared.                              *)
C1_FrozenAtMostOnce ==
    /\ [](Count(sent, FROZEN_JOB) <= 1)
    /\ [][frozen_note => frozen_note']_vars

\* a pass reads a stale log again, after the mail and after the log had advanced
C1_Witness ==
    /\ pc = "active"
    /\ frozen_note /\ thawed
    /\ elapsed > TIME_DEAD
    /\ ~Has(lastOps, "email")
    /\ Count(sent, FROZEN_JOB) = 1

(* C2: whenever a state refresh made by the monitor returns D, in the waiting *)
(* loop as well as in the active loop, one "JOB ENDED" mail is sent and the   *)
(* session is terminated on that same step, without sleeping again.           *)
C2_DeadObservedEndsSession ==
    (MonitorRefreshed /\ lastState = DEAD /\ pc # "crashed")
        => /\ pc = "done"
           /\ Count(sent, JOB_ENDED) = 1
           /\ ~Has(lastOps, "sleep")

(* C3: a session that left the active loop sent exactly one end-of-session   *)
(* mail, "JOB ENDED" or "NODE FAILURE", and the break taken matches it.      *)
C3_ExactlyOneEndMail ==
    pc = "done"
        => /\ EndMails = 1
           /\ cause \in {"JobEnded", "NodeFailure"}
           /\ (cause = "JobEnded") = (Count(sent, JOB_ENDED) = 1)
           /\ (cause = "NodeFailure") = (Count(sent, NODE_FAILURE) = 1)
           /\ sent[Len(sent)] \in {JOB_ENDED, NODE_FAILURE}

\* a session ended by a node failure after a frozen mail
C3_Witness ==
    /\ pc = "done"
    /\ cause = "NodeFailure"
    /\ sent = <<FROZEN_JOB, NODE_FAILURE>>

(* C4: with queries succeeding and the daemon scheduled, a job that is Dead  *)
(* (and stays Dead) leads to a terminated session, whatever happened before, *)
(* also when the job was never seen Running or its log never seen to exist.  *)
C4_DeadJobEndsSession ==
    (pc \in {"waiting", "started", "active"} /\ schedState = DEAD) ~> (pc = "done" /\ EndMails = 1)

(* C5: a pass of the active loop whose refreshed state is not D and in which  *)
(* at least one probe failed sends one "NODE FAILURE" mail and terminates on *)
(* that pass: no frozen check, no sleep, the job still Running or not.       *)
C5_NodeFailureEndsSession ==
    (ActivePassed /\ lastState # DEAD /\ \E i \in DOMAIN pingOk : ~pingOk[i])
        => /\ pc = "done"
           /\ cause = "NodeFailure"
           /\ Count(sent, NODE_FAILURE) = 1
           /\ sent[Len(sent)] = NODE_FAILURE
           /\ Count(lastOps, "email") = 1
           /\ ~Has(lastOps, "sleep")

\* one failed probe among two, the job still Running at the scheduler
C5_Witness ==
    /\ ActivePassed /\ pc = "done"
    /\ lastState = RUNNING /\ schedState = RUNNING
    /\ Len(pingOk) = 2 /\ pingOk[1] /\ ~pingOk[2]
    /\ sent = <<NODE_FAILURE>>

(* The end of run() (lines 176-178): both breaks reach stop() and, when it   *)
(* returns, delpid(), in that order and with nothing after the end mail; the *)
(* artifact is gone whenever delpid() was called. Whether stop() returns is  *)
(* decided by daemon.py, so the artifact's fate after an end mail is open.   *)
ExitCalls == {<<"stop">>, <<"stop", "delpid">>}

ExitReachesStopThenDelpid ==
    /\ pc = "done"
          => /\ \E x \in ExitCalls, n \in 1..Len(lastOps) :
                     lastOps = SubSeq(lastOps, 1, n) \o x /\ lastOps[n] = "email"
             /\ lastOps[Len(lastOps)] = "delpid" => job.id \notin pidfiles
    /\ pc \in {"waiting", "started", "active"} => job.id \in pidfiles

\* stop() returned and delpid() removed the artifact
ExitReturned == pc = "done" /\ lastOps[Len(lastOps)] = "delpid" /\ job.id \notin pidfiles

\* stop() did not return and the artifact is still there
ExitCutShort == pc = "done" /\ lastOps[Len(lastOps)] = "stop" /\ job.id \in pidfiles

(* C7: when sqsub exits non-zero, submit_job returns None: no Job is built,  *)
(* no sqjobs, qstat or sqhosts query is made, the command exits non-zero and *)
(* no daemon is started.                                                     *)
C7_RejectedSubmission ==
    submitRc \notin {-1, 0}
        => /\ ~haveJob /\ job = NoJob
           /\ lastOps = <<"sqsub">>
           /\ pc = "exited" /\ mainExit = "nonzero"
           /\ pidfiles = {}

\* sqsub was rejected
C7_Witness ==
    /\ submitRc = 1
    /\ pc = "exited"
    /\ mainExit = "nonzero"

(* C8: every Job returned by submit_job has an id made of digits only, and   *)
(* no monitor runs for any other id.                                         *)
C8_JobIdIsNumeric ==
    haveJob => isdigit(job.id)

(* C9: get_offline_nodes probes every element of the list once, in order,    *)
(* whatever earlier probes returned, and returns exactly the elements whose  *)
(* probe failed, in input order; nothing is probed for an empty list.        *)
C9_OfflineNodesExact ==
    (ActivePassed /\ lastState # DEAD)
        => /\ pinged = job.nodes
           /\ Count(lastOps, "ping") = Len(job.nodes)
           /\ DOMAIN pingOk = DOMAIN job.nodes
           /\ IsFailedSublist(offline, job.nodes, pingOk)
           /\ ((\A i \in DOMAIN pingOk : ~pingOk[i]) => offline = job.nodes)

\* the first probe failed and the second, still made, succeeded
C9_Witness ==
    /\ ActivePassed /\ lastState # DEAD
    /\ Len(job.nodes) = 2
    /\ ~pingOk[1] /\ pingOk[2]
    /\ pinged = job.nodes
    /\ offline = <<job.nodes[1]>>

(* C10: refresh_log_path stores the concrete path: no placeholder is left,   *)
(* every occurrence in the scheduler's file: attribute has been replaced by  *)
(* the id qstat reports, a path without placeholder is stored as it is, and  *)
(* a second call on the same answers leaves the stored path unchanged.       *)
C10_LogPathResolved ==
    /\ [](haveJob =>
            /\ ~contains(job.log, PBS_JOBID)
            /\ Len(job.log) = Len(schedFile)
                 + Cardinality(Occurrences(schedFile, PBS_JOBID))
                     * (Len(QstatId(job.id)) - Len(PBS_JOBID))
            /\ Cardinality(Occurrences(job.log, QstatId(job.id)))
                 = Cardinality(Occurrences(schedFile, PBS_JOBID))
            /\ (~contains(schedFile, PBS_JOBID) => job.log = schedFile))
    /\ [][(haveJob /\ Has(lastOps', "sleep") /\ pc' = "waiting") => job'.log = job.log]_vars

\* a waiting pass resolved, once more, a path holding the placeholder twice
C10_Witness ==
    /\ pc = "waiting"
    /\ Has(lastOps, "qstat") /\ Has(lastOps, "sleep")
    /\ Cardinality(Occurrences(schedFile, PBS_JOBID)) = 2
    /\ ~contains(job.log, PBS_JOBID)

-----------------------------------------------------------------------------
(* Vocabulary of the properties about single passes *)

\* the latest program step was a pass of the active loop (it may have raised)
ActiveBegun == Len(lastOps) > 0 /\ lastOps[1] = "getmtime"

\* this step is a pass of the active loop
ActiveStep == pc = "active" /\ (pc' # "active" \/ polls' # polls)

\* this step is a program step taken in the waiting loop
WaitingStep == pc = "waiting" /\ (pc' # "waiting" \/ polls' # polls)

Pings(n) == [i \in 1..n |-> "ping"]

EndSubjects == {JOB_ENDED, NODE_FAILURE}

(* C11: the waiting loop is left for the active loop only at a test where the *)
(* stored state is R and the stored log path is a file; otherwise the pass    *)
(* refreshes state and log path, sleeps and stays in the waiting loop (or     *)
(* dies on a query that raised).                                              *)
C11_LeaveWaitingOnlyWhenRunningWithLog ==
    /\ [][(pc = "waiting" /\ pc' \in {"started", "active"})
            => (job.state = RUNNING /\ job.log \in files)]_vars
    /\ [][pc = "started" => pc' \in {"started", "active"}]_vars
    /\ [][(WaitingStep /\ (job.state # RUNNING \/ job.log \notin files))
            => /\ pc' \in {"waiting", "crashed"}
               /\ pc' = "waiting"
                    => /\ lastOps' \in
                            {t \o <<"isfile", "sqjobs", "sqjobs">> \o q \o <<"sleep">> :
                                 t \in {IF job.state = RUNNING THEN <<"isfile">> ELSE <<>>},
                                 q \in {<<>>, <<"qstat">>}}
                       /\ lastState' = job'.state
                       /\ job'.nodes = job.nodes]_vars

\* a pass stayed in the waiting loop with the job Running but no log file yet
C11_Witness ==
    /\ pc = "waiting"
    /\ job.state = RUNNING /\ lastState = RUNNING
    /\ job.log \notin files
    /\ Has(lastOps, "sleep")

(* C12: the pass that sends "FROZEN JOB?" does not end the session: it sleeps *)
(* and the loop goes on; a later pass that reads D, or has a failed probe,    *)
(* still sends its end mail and terminates.                                   *)
C12_FrozenDoesNotTerminate ==
    /\ (ActivePassed /\ Has(lastOps, "email") /\ sent[Len(sent)] = FROZEN_JOB)
          => /\ pc = "active"
             /\ lastOps[Len(lastOps)] = "sleep"
             /\ cause = "still-running"
             /\ job.id \in pidfiles
    /\ (ActivePassed /\ frozen_note /\ lastState = DEAD)
          => (pc = "done" /\ sent = <<FROZEN_JOB, JOB_ENDED>>)
    /\ (ActivePassed /\ frozen_note /\ lastState # DEAD /\ asked.down)
          => (pc = "done" /\ sent = <<FROZEN_JOB, NODE_FAILURE>>)

\* the job was found Dead on a pass after the frozen mail
C12_Witness ==
    /\ pc = "done"
    /\ lastState = DEAD
    /\ frozen_note
    /\ sent = <<FROZEN_JOB, JOB_ENDED>>

(* C13: on a pass of the active loop that does not end the session, the      *)
(* frozen mail is sent on that pass exactly when the log's age is strictly   *)
(* above TIME_DEAD and the flag is unset; at or below TIME_DEAD nothing is   *)
(* sent and the flag is left as it was.                                      *)
C13_FrozenIffStaleAndUnflagged ==
    [][(ActiveStep /\ pc' = "active")
         => /\ asked'.stale = (elapsed' > TIME_DEAD)
            /\ (Len(sent') > Len(sent)) = (elapsed' > TIME_DEAD /\ ~frozen_note)
            /\ Len(sent') > Len(sent)
                 => (sent' = Append(sent, FROZEN_JOB) /\ frozen_note')
            /\ elapsed' <= TIME_DEAD
                 => (sent' = sent /\ frozen_note' = frozen_note)]_vars

\* the flag was unset and the age one second above the threshold: the mail went out
C13_Witness ==
    /\ pc = "active"
    /\ elapsed = TIME_DEAD + 1
    /\ Has(lastOps, "email")
    /\ sent = <<FROZEN_JOB>>

(* C14: leaving the waiting loop sleeps one more interval and then calls     *)
(* refresh_nodes once; the node list stored then is the one every pass of    *)
(* the active loop probes, and no later step changes it or asks sqhosts,     *)
(* whatever the scheduler does during or after that sleep.                   *)
C14_BaselineNodesFixed ==
    /\ [][pc = "active" => job'.nodes = job.nodes]_vars
    /\ [][pc = "waiting"
            => /\ pc' # "active"
               /\ pc' = "started"
                    => (lastOps' = <<"isfile", "sleep">> /\ polls' # polls /\ job' = job)]_vars
    /\ [][pc = "started"
            => \/ pc' = "started" /\ job' = job /\ lastOps' = lastOps /\ polls' = polls
               \/ /\ pc' = "active"
                  /\ lastOps' = <<"sqhosts">>
                  /\ polls' = polls
                  /\ job' = [job EXCEPT !.nodes = job'.nodes]]_vars
    /\ [](ActiveBegun => (~Has(lastOps, "sqhosts") /\ (pinged # <<>> => pinged = job.nodes)))

\* a pass of the active loop probed the two baseline nodes and went on
C14_Witness ==
    /\ pc = "active"
    /\ ActivePassed
    /\ Len(job.nodes) = 2
    /\ pinged = job.nodes
    /\ lastOps[Len(lastOps)] = "sleep"

(* C15: a pass of the active loop refreshes the state, then tests D, then    *)
(* probes, then tests the age. On D nothing is probed and only "JOB ENDED"   *)
(* is sent, even with a node down and a stale log; with a failed probe only  *)
(* "NODE FAILURE" is sent, even with a stale log.                            *)
C15_PassOrder ==
    /\ (ActivePassed /\ lastState = DEAD)
          => /\ lastOps \in {<<"getmtime", "sqjobs", "email">> \o x : x \in ExitCalls}
             /\ pinged = <<>>
             /\ sent[Len(sent)] = JOB_ENDED
             /\ ~Has(sent, NODE_FAILURE)
             /\ Count(sent, FROZEN_JOB) = (IF frozen_note THEN 1 ELSE 0)
    /\ (ActivePassed /\ lastState # DEAD /\ asked.down)
          => /\ lastOps \in {<<"getmtime", "sqjobs">> \o Pings(Len(job.nodes))
                                  \o <<"email">> \o x : x \in ExitCalls}
             /\ sent[Len(sent)] = NODE_FAILURE
             /\ ~Has(sent, JOB_ENDED)
             /\ Count(sent, FROZEN_JOB) = (IF frozen_note THEN 1 ELSE 0)
    /\ (ActivePassed /\ lastState # DEAD /\ ~asked.down)
          => lastOps \in {<<"getmtime", "sqjobs">> \o Pings(Len(job.nodes))
                              \o <<"getmtime">> \o m \o <<"sleep">> : m \in {<<>>, <<"email">>}}

\* D was read while a node was down and the log stale, no frozen mail sent before
C15_Witness ==
    /\ pc = "done"
    /\ ActivePassed /\ lastState = DEAD
    /\ asked.down /\ asked.stale
    /\ ~frozen_note
    /\ sent = <<JOB_ENDED>>

(* C16: when the state query of a pass of the active loop fails (the command *)
(* fails or prints no value for state:), the daemon dies on that pass: no    *)
(* mail, no probe, no sleep, nothing afterwards; mail sent before stays.     *)
C16_QueryFailureIsFatal ==
    /\ []((ActiveBegun /\ asked.qfail)
            => /\ pc = "crashed"
               /\ lastOps = <<"getmtime", "sqjobs">>
               /\ pinged = <<>>)
    /\ [][(ActiveStep /\ asked'.qfail)
            => (sent' = sent /\ frozen_note' = frozen_note /\ cause' = cause)]_vars
    /\ [][pc = "crashed" => (pc' = "crashed" /\ sent' = sent /\ lastOps' = lastOps)]_vars

\* the query failed on a pass after the frozen mail
C16_Witness ==
    /\ pc = "crashed"
    /\ ActiveBegun /\ asked.qfail
    /\ sent = <<FROZEN_JOB>>

(* C17: in the waiting loop nothing is mailed, no node is probed and the pid *)
(* artifact stays; whatever state is read (Q, D, or R without a log file)    *)
(* the pass only refreshes and sleeps, and the loop is left only for the     *)
(* active loop or by a query that raised.                                    *)
C17_WaitingIsSilent ==
    /\ [](pc = "waiting"
            => /\ sent = <<>>
               /\ pinged = <<>>
               /\ cause = "still-running"
               /\ job.id \in pidfiles
               /\ \A op \in {"email", "ping", "stop", "delpid"} : ~Has(lastOps, op))
    /\ [][pc = "waiting"
            => /\ pc' \in {"waiting", "started", "crashed"}
               /\ sent' = <<>>
               /\ pc' = "crashed"
                    => lastOps'[Len(lastOps')] \in {"sqjobs", "qstat"}
               /\ (WaitingStep /\ pc' # "crashed" /\ lastState' # <<>>)
                    => (pc' = "waiting" /\ lastOps'[Len(lastOps')] = "sleep")]_vars

\* a pass read D and the monitor is still waiting, silent, its artifact in place
C17_Witness ==
    /\ pc = "waiting"
    /\ lastState = DEAD
    /\ lastOps[Len(lastOps)] = "sleep"
    /\ sent = <<>>
    /\ job.id \in pidfiles

(* C18: a session sends at most two mails, at most one "FROZEN JOB?" and at  *)
(* most one end mail, at most one per step; the end mail is the last one and *)
(* nothing is sent after it.                                                 *)
C18_AtMostTwoMails ==
    /\ [](/\ Len(sent) <= 2
          /\ Count(sent, FROZEN_JOB) <= 1
          /\ EndMails <= 1
          /\ Count(lastOps, "email") <= 1
          /\ EndMails = 1 => (pc = "done" /\ sent[Len(sent)] \in EndSubjects))
    /\ [][/\ Len(sent') <= Len(sent) + 1
          /\ SubSeq(sent', 1, Len(sent)) = sent
          /\ EndMails = 1 => sent' = sent]_vars

\* both mails were sent, the frozen one on an earlier pass than the end mail
C18_Witness ==
    /\ Len(sent) = 2
    /\ sent[1] = FROZEN_JOB /\ sent[2] \in EndSubjects
    /\ Count(lastOps, "email") = 1
    /\ thawed

(* C19: "NODE FAILURE" is sent only on a pass in which an element of the     *)
(* stored node list failed its probe; with an empty stored list no pass      *)
(* reports a node failure and the session can end only on D.                 *)
C19_NodeFailureNeedsBaselineNode ==
    /\ (Has(sent, NODE_FAILURE) \/ cause = "NodeFailure")
          => /\ job.nodes # <<>>
             /\ asked.down
             /\ \E i \in DOMAIN job.nodes :
                    i \in DOMAIN pingOk /\ ~pingOk[i] /\ pinged[i] = job.nodes[i]
    /\ (pc \in {"active", "done"} /\ job.nodes = <<>>)
          => /\ ~Has(sent, NODE_FAILURE)
             /\ ~Has(lastOps, "ping")
             /\ pc = "done" => (cause = "JobEnded" /\ lastState = DEAD)

\* a session with an empty node list went past a frozen mail and ended on D
C19_Witness ==
    /\ pc = "done"
    /\ job.nodes = <<>>
    /\ cause = "JobEnded"
    /\ sent = <<FROZEN_JOB, JOB_ENDED>>

====
